---- MODULE Spec2Model ----
(***************************************************************************)
(* Model of typed-builder's StructInfo (src/struct_info.rs): the code      *)
(* generators builder_creation_impl, conversion_helper_impl, field_impl    *)
(* and build_method_impl, together with the meaning of the code they emit  *)
(* (which receiver types each generated method accepts, and what value it  *)
(* returns), exercised by a caller that creates builders, calls setters    *)
(* and calls build().                                                      *)
(***************************************************************************)
EXTENDS Integers, Sequences, FiniteSets, TLC

\* ------------------------------------------------------------------------
\* Bounds
\* ------------------------------------------------------------------------
\* largest number of fields of the derived struct
MaxFields == 2
\* largest number of builder values the caller creates (builder() results
\* and setter results together)
MaxBindings == 3
\* largest number held by a slot or passed as a default when the helper
\* method is called on its own
MaxProbeValue == 4

\* ------------------------------------------------------------------------
\* The derive input: a struct with named fields and #[builder(...)] attributes
\* ------------------------------------------------------------------------
\* field names, by declaration position
Names == <<"a", "b", "c", "d", "e">>

\* a field's default attribute: absent, a literal, or `<earlier field> + c`
NoDefault == [kind |-> "none", c |-> 0, of |-> ""]

Lit(c) == [kind |-> "lit", c |-> c, of |-> ""]

RefPlus(n, c) == [kind |-> "ref", c |-> c, of |-> n]

\* the default expressions a field at declaration position i may carry: they
\* are valid in the scope of build(), so they name earlier fields only
DefaultsAt(i) == {NoDefault, Lit(1)} \cup {RefPlus(Names[j], 1) : j \in 1..(i - 1)}

\* the syn::Field at declaration position i, with its parsed attributes
FieldDecls(i) ==
    {[name |-> Names[i], ty |-> "i32", default |-> d, exclude |-> x] :
        d \in DefaultsAt(i), x \in BOOLEAN}

\* the struct's own generic parameter lists
GenericsChoices == {<<>>, <<"T">>}

\* the struct's own attribute lists: none, one malformed #[builder(...)], or
\* two #[builder(...)] attributes
AttrsChoices == {<<>>, <<"builder(malformed)">>, <<"builder()", "builder()">>}

\* a value of type i32
I32(n) == [ty |-> "i32", v |-> n]

\* the arguments a caller passes to a setter: values of types that are
\* Into<i32>
Args == {[ty |-> "i32", v |-> 5], [ty |-> "u8", v |-> 7]}

\* core::convert::Into<i32>::into: From<i32> for i32 (reflexive) and
\* From<u8> for i32 (lossless widening); the result is an i32
Into(value) == I32(value.v)

\* ------------------------------------------------------------------------
\* Types and values of the generated code
\* ------------------------------------------------------------------------
\* util::empty_type(): the type `()`, the unset shape
empty_type == [k |-> "unit", t |-> ""]

\* the type `(T,)`, the set shape of a field of type T
TupleTy(t) == [k |-> "tup", t |-> t]

\* a generic type parameter of an impl, used as a type
TypeVar(g) == [k |-> "var", t |-> g]

\* one of the struct's own generic parameters, used as a type argument
OwnParam(p) == [k |-> "own", t |-> p]

\* the value `()`
UnitVal == <<>>

\* the value `(v,)`
TupleVal(v) == <<v>>

\* ------------------------------------------------------------------------
\* FieldInfo and StructInfo
\* ------------------------------------------------------------------------
\* FieldInfo::new(i, f): the descriptor of the field at 0-based position i;
\* an excluded field must carry a default
FieldInfo_new(i, f) ==
    IF f.exclude /\ f.default.kind = "none"
    THEN [ok |-> FALSE, v |-> [ordinal |-> i, name |-> f.name, ty |-> f.ty,
                               generic_ident |-> f.name,
                               builder_attr |-> [default |-> f.default, exclude |-> f.exclude]]]
    ELSE [ok |-> TRUE, v |-> [ordinal |-> i, name |-> f.name, ty |-> f.ty,
                              generic_ident |-> f.name,
                              builder_attr |-> [default |-> f.default, exclude |-> f.exclude]]]

\* FieldInfo::type_ident: the field's generic identifier as a type
type_ident(f) == TypeVar(f.generic_ident)

\* FieldInfo::tuplized_type_ty_param: the type `(field type,)`
tuplized_type_ty_param(f) == TupleTy(f.ty)

\* a generic parameter without a bound
NoBound == [trait |-> "", arg |-> ""]

\* the bound `conversion_helper_trait_name<T>`
HelperBound(t) == [trait |-> "helper", arg |-> t]

\* FieldInfo::generic_ty_param: the field's generic identifier as an unbounded
\* generic parameter
generic_ty_param(f) == [ident |-> f.generic_ident, bound |-> NoBound]

\* TypeBuilderAttr::new: parse the tokens of one #[builder(...)] attribute
TypeBuilderAttr_new(attr) == [ok |-> attr = "builder()", v |-> [name |-> ""]]

\* util::map_only_one over the #[builder(...)] attributes: the parsed
\* attribute if there is one, nothing if there is none, an error if one does
\* not parse or there are several
map_only_one(attrs) ==
    IF \E n \in 1..Len(attrs) : ~TypeBuilderAttr_new(attrs[n]).ok
    THEN [ok |-> FALSE, some |-> FALSE, v |-> [name |-> ""]]
    ELSE IF Len(attrs) > 1 THEN [ok |-> FALSE, some |-> FALSE, v |-> [name |-> ""]]
    ELSE IF Len(attrs) = 1 THEN [ok |-> TRUE, some |-> TRUE, v |-> TypeBuilderAttr_new(attrs[1]).v]
    ELSE [ok |-> TRUE, some |-> FALSE, v |-> [name |-> ""]]

\* StructInfo::find_builder_attr: the struct's #[builder(...)] attribute, or
\* the default one
find_builder_attr(ast) ==
    LET r == map_only_one(ast.attrs)
    IN  [ok |-> r.ok, v |-> IF r.some THEN r.v ELSE [name |-> ""]]

\* the builder's name: the attribute's, or `<struct>Builder`
BuilderName(ident, builder_attr) ==
    IF builder_attr.name # "" THEN <<builder_attr.name>> ELSE <<ident, "Builder">>

\* StructInfo::new dropping the fields whose descriptor fails instead of
\* failing itself
StructInfo_new_skip(ast) ==
    LET attr == find_builder_attr(ast)
        res == [i \in 1..Len(ast.fields) |-> FieldInfo_new(i - 1, ast.fields[i])]
        good == SelectSeq(res, LAMBDA r : r.ok)
    IN  IF ~attr.ok
        THEN [ok |-> FALSE, v |-> [name |-> ast.ident, generics |-> ast.generics, fields |-> <<>>,
                                   builder_name |-> <<>>]]
        ELSE [ok |-> TRUE,
              v |-> [name |-> ast.ident, generics |-> ast.generics,
                     fields |-> [i \in 1..Len(good) |-> good[i].v],
                     builder_name |-> BuilderName(ast.ident, attr.v)]]

\* StructInfo::new numbering the descriptors over the included fields only (an
\* excluded field takes the number of the next included one)
StructInfo_new_dense(ast) ==
    LET attr == find_builder_attr(ast)
        before(i) == Cardinality({j \in 1..(i - 1) : ~ast.fields[j].exclude})
        res == [i \in 1..Len(ast.fields) |-> FieldInfo_new(before(i), ast.fields[i])]
    IN  IF ~attr.ok \/ \E i \in 1..Len(ast.fields) : ~res[i].ok
        THEN [ok |-> FALSE, v |-> [name |-> ast.ident, generics |-> ast.generics, fields |-> <<>>,
                                   builder_name |-> <<>>]]
        ELSE [ok |-> TRUE,
              v |-> [name |-> ast.ident, generics |-> ast.generics,
                     fields |-> [i \in 1..Len(ast.fields) |-> res[i].v],
                     builder_name |-> BuilderName(ast.ident, attr.v)]]

\* StructInfo::new: find the builder attribute, enumerate the fields, build
\* each descriptor; fail if the attribute or any descriptor fails
StructInfo_new(ast) ==
    LET attr == find_builder_attr(ast)
        res == [i \in 1..Len(ast.fields) |-> FieldInfo_new(i - 1, ast.fields[i])]
    IN  IF ~attr.ok \/ \E i \in 1..Len(ast.fields) : ~res[i].ok
        THEN [ok |-> FALSE, v |-> [name |-> ast.ident, generics |-> ast.generics, fields |-> <<>>,
                                   builder_name |-> <<>>]]
        ELSE [ok |-> TRUE,
              v |-> [name |-> ast.ident, generics |-> ast.generics,
                     fields |-> [i \in 1..Len(ast.fields) |-> res[i].v],
                     builder_name |-> BuilderName(ast.ident, attr.v)]]

IsIncluded(f) == ~f.builder_attr.exclude

\* included_fields without the filter on `exclude`
included_fields_all(self) == self.fields

\* StructInfo::included_fields
included_fields(self) == SelectSeq(self.fields, IsIncluded)

\* self.generics as a list of type arguments (ty_generics of split_for_impl)
OwnTyGenerics(self) == [i \in 1..Len(self.generics) |-> OwnParam(self.generics[i])]

\* ------------------------------------------------------------------------
\* The generators
\* ------------------------------------------------------------------------
\* self.generics as the generic parameters of an impl or of the builder
OwnGenericParams(self) ==
    [i \in 1..Len(self.generics) |-> [ident |-> self.generics[i], bound |-> NoBound]]

\* builder_creation_impl giving builder() one slot per field of the struct,
\* excluded ones too
builder_creation_impl_allfields(self) ==
    LET inc == included_fields(self)
        all == self.fields
    IN  [init_empties |-> [i \in 1..Len(all) |-> [name |-> all[i].name, value |-> UnitVal]],
         builder_generics |-> [i \in 1..Len(inc) |-> [name |-> inc[i].name, ty |-> type_ident(inc[i])]],
         b_generics |-> OwnGenericParams(self)
                        \o [i \in 1..Len(inc) |-> generic_ty_param(inc[i])],
         generics_with_empty |-> OwnTyGenerics(self) \o [i \in 1..Len(all) |-> empty_type],
         phantom_generics |-> [i \in 1..Len(self.generics) |-> [k |-> "PhantomData", t |-> self.generics[i]]]]

\* StructInfo::builder_creation_impl: the builder struct and builder()
builder_creation_impl(self) ==
    LET inc == included_fields(self)
    IN  [init_empties |-> [i \in 1..Len(inc) |-> [name |-> inc[i].name, value |-> UnitVal]],
         builder_generics |-> [i \in 1..Len(inc) |-> [name |-> inc[i].name, ty |-> type_ident(inc[i])]],
         b_generics |-> OwnGenericParams(self)
                        \o [i \in 1..Len(inc) |-> generic_ty_param(inc[i])],
         generics_with_empty |-> OwnTyGenerics(self) \o [i \in 1..Len(inc) |-> empty_type],
         phantom_generics |-> [i \in 1..Len(self.generics) |-> [k |-> "PhantomData", t |-> self.generics[i]]]]

\* StructInfo::conversion_helper_impl: the helper trait's two impls, for `()`
\* and for `(T,)`, each with what its method returns
conversion_helper_impl ==
    <<[for |-> "unit", returns |-> "default"], [for |-> "tup", returns |-> "self.0"]>>

\* field_impl whose receiver leaves the field's own slot a free parameter
field_impl_anyshape(self, field) ==
    LET inc == included_fields(self)
        others == SelectSeq(inc, LAMBDA f : f.ordinal # field.ordinal)
    IN  [field_name |-> field.name,
         field_type |-> field.ty,
         other_fields_name |-> [i \in 1..Len(others) |-> others[i].name],
         impl_generics |-> OwnGenericParams(self)
                           \o [i \in 1..Len(inc) |-> generic_ty_param(inc[i])],
         ty_generics |-> OwnTyGenerics(self) \o [i \in 1..Len(inc) |-> type_ident(inc[i])],
         target_generics |-> OwnTyGenerics(self)
                             \o [i \in 1..Len(inc) |-> IF inc[i].ordinal = field.ordinal
                                                       THEN tuplized_type_ty_param(inc[i])
                                                       ELSE type_ident(inc[i])]]

\* field_impl whose receiver also pins the slots of the fields declared
\* after `field` to the unset shape
field_impl_ordered(self, field) ==
    LET inc == included_fields(self)
        others == SelectSeq(inc, LAMBDA f : f.ordinal # field.ordinal)
        before == SelectSeq(inc, LAMBDA f : f.ordinal < field.ordinal)
    IN  [field_name |-> field.name,
         field_type |-> field.ty,
         other_fields_name |-> [i \in 1..Len(others) |-> others[i].name],
         impl_generics |-> OwnGenericParams(self)
                           \o [i \in 1..Len(before) |-> generic_ty_param(before[i])],
         ty_generics |-> OwnTyGenerics(self)
                         \o [i \in 1..Len(inc) |-> IF inc[i].ordinal >= field.ordinal
                                                   THEN empty_type ELSE type_ident(inc[i])],
         target_generics |-> OwnTyGenerics(self)
                             \o [i \in 1..Len(inc) |-> IF inc[i].ordinal = field.ordinal
                                                       THEN tuplized_type_ty_param(inc[i])
                                                       ELSE IF inc[i].ordinal > field.ordinal
                                                       THEN empty_type
                                                       ELSE type_ident(inc[i])]]

\* field_impl listing the slots of the setter's return type in the opposite
\* order
field_impl_mirrored(self, field) ==
    LET inc == included_fields(self)
        others == SelectSeq(inc, LAMBDA f : f.ordinal # field.ordinal)
        rev(i) == inc[Len(inc) + 1 - i]
    IN  [field_name |-> field.name,
         field_type |-> field.ty,
         other_fields_name |-> [i \in 1..Len(others) |-> others[i].name],
         impl_generics |-> OwnGenericParams(self)
                           \o [i \in 1..Len(others) |-> generic_ty_param(others[i])],
         ty_generics |-> OwnTyGenerics(self)
                         \o [i \in 1..Len(inc) |-> IF inc[i].ordinal = field.ordinal
                                                   THEN empty_type ELSE type_ident(inc[i])],
         target_generics |-> OwnTyGenerics(self)
                             \o [i \in 1..Len(inc) |-> IF rev(i).ordinal = field.ordinal
                                                       THEN tuplized_type_ty_param(rev(i))
                                                       ELSE type_ident(rev(i))]]

\* StructInfo::field_impl: the impl block holding the setter of `field`
field_impl(self, field) ==
    LET inc == included_fields(self)
        others == SelectSeq(inc, LAMBDA f : f.ordinal # field.ordinal)
    IN  [field_name |-> field.name,
         field_type |-> field.ty,
         other_fields_name |-> [i \in 1..Len(others) |-> others[i].name],
         impl_generics |-> OwnGenericParams(self)
                           \o [i \in 1..Len(others) |-> generic_ty_param(others[i])],
         ty_generics |-> OwnTyGenerics(self)
                         \o [i \in 1..Len(inc) |-> IF inc[i].ordinal = field.ordinal
                                                   THEN empty_type ELSE type_ident(inc[i])],
         target_generics |-> OwnTyGenerics(self)
                             \o [i \in 1..Len(inc) |-> IF inc[i].ordinal = field.ordinal
                                                       THEN tuplized_type_ty_param(inc[i])
                                                       ELSE type_ident(inc[i])]]

\* the `let` of build() chosen without looking at `exclude`
Assignment_included(field) ==
    IF field.builder_attr.default.kind # "none"
    THEN [name |-> field.name, how |-> "helper", default |-> field.builder_attr.default]
    ELSE [name |-> field.name, how |-> "unwrap", default |-> field.builder_attr.default]

\* one `let` of build(): how the field at declaration position i is resolved
Assignment(field) ==
    IF field.builder_attr.default.kind # "none"
    THEN IF field.builder_attr.exclude
         THEN [name |-> field.name, how |-> "default", default |-> field.builder_attr.default]
         ELSE [name |-> field.name, how |-> "helper", default |-> field.builder_attr.default]
    ELSE [name |-> field.name, how |-> "unwrap", default |-> field.builder_attr.default]

\* build_method_impl leaving every slot, required ones too, a free parameter
build_method_impl_free(self) ==
    LET inc == included_fields(self)
        opt == SelectSeq(inc, LAMBDA f : f.builder_attr.default.kind # "none")
        req == SelectSeq(inc, LAMBDA f : f.builder_attr.default.kind = "none")
    IN  [impl_generics |-> OwnGenericParams(self)
                           \o [i \in 1..Len(opt) |-> [ident |-> opt[i].generic_ident,
                                                       bound |-> HelperBound(opt[i].ty)]]
                           \o [i \in 1..Len(req) |-> generic_ty_param(req[i])],
         modified_ty_generics |-> OwnTyGenerics(self) \o [i \in 1..Len(inc) |-> type_ident(inc[i])],
         assignments |-> [i \in 1..Len(self.fields) |-> Assignment(self.fields[i])],
         field_names |-> [i \in 1..Len(self.fields) |-> self.fields[i].name]]

\* build_method_impl pinning every slot, optional ones too, to the set shape
build_method_impl_pinned(self) ==
    LET inc == included_fields(self)
    IN  [impl_generics |-> OwnGenericParams(self),
         modified_ty_generics |-> OwnTyGenerics(self)
                                  \o [i \in 1..Len(inc) |-> tuplized_type_ty_param(inc[i])],
         assignments |-> [i \in 1..Len(self.fields) |-> Assignment(self.fields[i])],
         field_names |-> [i \in 1..Len(self.fields) |-> self.fields[i].name]]

\* StructInfo::build_method_impl: the impl block holding build()
build_method_impl(self) ==
    LET inc == included_fields(self)
        opt == SelectSeq(inc, LAMBDA f : f.builder_attr.default.kind # "none")
    IN  [impl_generics |-> OwnGenericParams(self)
                           \o [i \in 1..Len(opt) |-> [ident |-> opt[i].generic_ident,
                                                       bound |-> HelperBound(opt[i].ty)]],
         modified_ty_generics |-> OwnTyGenerics(self)
                                  \o [i \in 1..Len(inc) |-> IF inc[i].builder_attr.default.kind # "none"
                                                            THEN type_ident(inc[i])
                                                            ELSE tuplized_type_ty_param(inc[i])],
         assignments |-> [i \in 1..Len(self.fields) |-> Assignment(self.fields[i])],
         field_names |-> [i \in 1..Len(self.fields) |-> self.fields[i].name]]

\* ------------------------------------------------------------------------
\* What the generated code means: which calls type-check, what they return
\* ------------------------------------------------------------------------
\* the helper trait implemented for every one-element tuple, whatever it
\* holds
Implements_anytuple(ty, t) == ty = empty_type \/ ty.k = "tup"

\* the impls of the helper trait decide which slot types satisfy the bound
\* `helper<t>`: `()` for every t, and `(t,)`
Implements(ty, t) ==
    \E n \in 1..Len(conversion_helper_impl) :
        \/ conversion_helper_impl[n].for = "unit" /\ ty = empty_type
        \/ conversion_helper_impl[n].for = "tup" /\ ty = TupleTy(t)

\* the helper method whose impl for `(T,)` returns the default as well
HelperMethod_default(slot, default) == default

\* the helper method applied to a slot value: the impl for `()` returns the
\* default it is passed, the impl for `(T,)` returns self.0
HelperMethod(slot, default) ==
    LET impl == IF slot = UnitVal THEN conversion_helper_impl[1] ELSE conversion_helper_impl[2]
    IN  IF impl.returns = "default" THEN default ELSE slot[1]

\* the bound of the generic parameter g of an impl
BoundOf(impl_generics, g) ==
    LET n == CHOOSE n \in 1..Len(impl_generics) : impl_generics[n].ident = g
    IN  impl_generics[n].bound

\* g is one of the generic parameters the impl declares
Declares(impl_generics, g) == \E n \in 1..Len(impl_generics) : impl_generics[n].ident = g

\* method resolution: an impl for `Builder<pattern>` with the given generic
\* parameters applies to a receiver of type `Builder<ty>`
Matches(impl_generics, pattern, ty) ==
    /\ Len(pattern) = Len(ty)
    /\ \A n \in 1..Len(pattern) :
          IF pattern[n].k = "var"
          THEN /\ Declares(impl_generics, pattern[n].t)
               /\ LET b == BoundOf(impl_generics, pattern[n].t)
                  IN  b.trait = "helper" => Implements(ty[n], b.arg)
          ELSE pattern[n] = ty[n]

\* the type the receiver binds the generic parameter g to
Binding(pattern, ty, g) ==
    LET n == CHOOSE n \in 1..Len(pattern) : pattern[n] = TypeVar(g)
    IN  ty[n]

\* a generic type list with the impl's parameters replaced by their bindings
Instantiate(target, pattern, ty) ==
    [n \in 1..Len(target) |-> IF target[n].k = "var"
                              THEN Binding(pattern, ty, target[n].t)
                              ELSE target[n]]

\* a struct literal `Builder { phantom, name: value, ... }`
StructLiteral(phantom, inits) ==
    [phantom |-> phantom,
     slots |-> [nm \in {inits[n].name : n \in 1..Len(inits)} |->
                  LET n == CHOOSE n \in 1..Len(inits) : inits[n].name = nm
                  IN  inits[n].value]]

\* the generated `fn builder()`: its return type and the value of its body
CallBuilderFn(creation) ==
    [ty |-> creation.generics_with_empty,
     val |-> StructLiteral([n \in 1..Len(creation.phantom_generics) |-> "PhantomData"],
                           creation.init_empties)]

\* the generated setter type-checks on a receiver of type `Builder<ty>`
SetterAdmits(setter, ty) == Matches(setter.impl_generics, setter.ty_generics, ty)

\* the setter storing its argument as passed, without `.into()`
CallSetterFn_raw(setter, b, value) ==
    [ty |-> Instantiate(setter.target_generics, setter.ty_generics, b.ty),
     val |-> StructLiteral(b.val.phantom,
                <<[name |-> setter.field_name, value |-> TupleVal(value)]>>
                \o [n \in 1..Len(setter.other_fields_name) |->
                       [name |-> setter.other_fields_name[n],
                        value |-> b.val.slots[setter.other_fields_name[n]]]])]

\* the setter initialising the other slots anew instead of moving them
CallSetterFn_reset(setter, b, value) ==
    [ty |-> Instantiate(setter.target_generics, setter.ty_generics, b.ty),
     val |-> StructLiteral(b.val.phantom,
                <<[name |-> setter.field_name, value |-> TupleVal(Into(value))]>>
                \o [n \in 1..Len(setter.other_fields_name) |->
                       [name |-> setter.other_fields_name[n], value |-> UnitVal]])]

\* the generated setter applied to the builder b and the argument value
CallSetterFn(setter, b, value) ==
    [ty |-> Instantiate(setter.target_generics, setter.ty_generics, b.ty),
     val |-> StructLiteral(b.val.phantom,
                <<[name |-> setter.field_name, value |-> TupleVal(Into(value))]>>
                \o [n \in 1..Len(setter.other_fields_name) |->
                       [name |-> setter.other_fields_name[n],
                        value |-> b.val.slots[setter.other_fields_name[n]]]])]

\* the generated build() type-checks on a receiver of type `Builder<ty>`
BuildAdmits(build, ty) == Matches(build.impl_generics, build.modified_ty_generics, ty)

\* the value of a default expression where the earlier fields' locals are env
EvalDefault(d, env) == IF d.kind = "lit" THEN I32(d.c) ELSE I32(env[d.of].v + d.c)

\* the value one `let` of build() binds
AssignedValue(a, self, env) ==
    IF a.how = "default" THEN EvalDefault(a.default, env)
    ELSE IF a.how = "helper" THEN HelperMethod(self.slots[a.name], EvalDefault(a.default, env))
    ELSE self.slots[a.name][1]

RECURSIVE Locals(_, _, _)
\* the locals of build() after its first n `let`s, in order
Locals(assignments, self, n) ==
    IF n = 0 THEN [nm \in {} |-> 0]
    ELSE LET env == Locals(assignments, self, n - 1)
             a == assignments[n]
         IN  [nm \in DOMAIN env \cup {a.name} |->
                 IF nm = a.name THEN AssignedValue(a, self, env) ELSE env[nm]]

\* the fields whose default expression build() evaluates: every `let` that
\* holds one, `let name = default;` and `let name = self.name.helper(default);`
\* alike, since the argument of a call is evaluated before the call
DefaultsEvaluated(build) ==
    {build.assignments[n].name : n \in {m \in 1..Len(build.assignments) :
        build.assignments[m].how \in {"default", "helper"}}}

\* the generated build() applied to the builder b: the struct it returns
CallBuildFn(build, b) ==
    LET env == Locals(build.assignments, b.val, Len(build.assignments))
    IN  [nm \in {build.field_names[n] : n \in 1..Len(build.field_names)} |-> env[nm]]

\* ------------------------------------------------------------------------
\* State
\* ------------------------------------------------------------------------
VARIABLES
    pc,      \* "start", then "generated" or "error"
    ast,     \* the derive input
    info,    \* the StructInfo, once built
    code,    \* the generated fragments, once emitted
    binds,   \* the caller's builder values, in order of creation; each
             \* records which binding it was made from (parent, 0 for
             \* builder()), by which setter (via), and the arguments
             \* every setter was called with on the way (calls)
    recs,    \* the structs build() returned, each with the binding it was
             \* built from (src), the setter arguments of that builder
             \* (calls) and the fields whose default expression that
             \* build() evaluated (evaluated)
    probe    \* one call of the helper trait's method on its own: the
             \* receiver, the default passed, and how the call ended

vars == <<pc, ast, info, code, binds, recs, probe>>

\* the derive inputs: a struct `Foo` with up to MaxFields named fields
AllFieldLists ==
    UNION {{fs \in [1..n -> UNION {FieldDecls(i) : i \in 1..n}] :
               \A i \in 1..n : fs[i] \in FieldDecls(i)} : n \in 0..MaxFields}

\* an ill-formed attribute list is tried with one field list only: it fails
\* before the fields are looked at
DeriveInputs ==
    {[ident |-> "Foo", attrs |-> <<>>, generics |-> g, fields |-> fs] :
        g \in GenericsChoices, fs \in AllFieldLists}
    \cup {[ident |-> "Foo", attrs |-> a, generics |-> <<>>,
            fields |-> <<[name |-> Names[1], ty |-> "i32", default |-> NoDefault, exclude |-> FALSE]>>] :
              a \in AttrsChoices \ {<<>>}}

NoInfo == [name |-> "", generics |-> <<>>, fields |-> <<>>, builder_name |-> <<>>]

NoCode == <<>>

\* a builder value that was moved out of its binding
Moved == [st |-> "moved", ty |-> <<>>, val |-> <<>>, parent |-> 0, via |-> "", calls |-> <<>>]

\* no call of the helper method on its own
NoProbe == [ty |-> empty_type, slot |-> UnitVal, default |-> I32(0), st |-> "none", out |-> I32(0)]

Init ==
    /\ pc = "start"
    /\ ast \in DeriveInputs
    /\ info = NoInfo
    /\ code = NoCode
    /\ binds = <<>>
    /\ recs = {}
    /\ probe = NoProbe

\* a receiver taken by reference: the caller's binding stays usable
ConsumeSelf_borrow(bs, i) == bs

\* passing a builder by value (`self`) moves it out of the caller's binding:
\* the builder struct derives neither Clone nor Copy
ConsumeSelf(bs, i) == [bs EXCEPT ![i] = Moved]

\* the names of the fields that have a slot in the builder
SlotNames == {included_fields(info)[n].name : n \in 1..Len(included_fields(info))}

\* ------------------------------------------------------------------------
\* Actions
\* ------------------------------------------------------------------------
\* the derive macro runs: StructInfo::new, then the four generators
Derive ==
    /\ pc = "start"
    /\ LET r == StructInfo_new(ast)
       IN  IF r.ok
           THEN /\ pc' = "generated"
                /\ info' = r.v
                /\ code' = [creation |-> builder_creation_impl(r.v),
                            helper |-> conversion_helper_impl,
                            setters |-> [n \in 1..Len(included_fields(r.v)) |->
                                            field_impl(r.v, included_fields(r.v)[n])],
                            build |-> build_method_impl(r.v)]
           ELSE /\ pc' = "error"
                /\ UNCHANGED <<info, code>>
    /\ UNCHANGED <<ast, binds, recs, probe>>

\* the caller evaluates `Foo::builder()`
CallBuilder ==
    /\ pc = "generated"
    /\ Len(binds) < MaxBindings
    /\ LET b == CallBuilderFn(code.creation)
       IN  binds' = Append(binds, [st |-> "live", ty |-> b.ty, val |-> b.val,
                                   parent |-> 0, via |-> "",
                                   calls |-> [nm \in SlotNames |-> <<>>]])
    /\ UNCHANGED <<pc, ast, info, code, recs, probe>>

\* the caller evaluates `b.field(value)` on its i-th builder value, with the
\* setter of the k-th included field
CallSetter(i, k, value) ==
    /\ pc = "generated"
    /\ Len(binds) < MaxBindings
    /\ binds[i].st = "live"
    /\ SetterAdmits(code.setters[k], binds[i].ty)
    /\ LET b == CallSetterFn(code.setters[k], binds[i], value)
           nm == code.setters[k].field_name
       IN  binds' = Append(ConsumeSelf(binds, i),
                           [st |-> "live", ty |-> b.ty, val |-> b.val,
                            parent |-> i, via |-> nm,
                            calls |-> [binds[i].calls EXCEPT ![nm] = Append(@, value)]])
    /\ UNCHANGED <<pc, ast, info, code, recs, probe>>

\* the caller evaluates `b.build()` on its i-th builder value
CallBuild(i) ==
    /\ pc = "generated"
    /\ binds[i].st = "live"
    /\ BuildAdmits(code.build, binds[i].ty)
    /\ recs' = recs \cup {[src |-> i, calls |-> binds[i].calls,
                            fields |-> CallBuildFn(code.build, binds[i]),
                            evaluated |-> DefaultsEvaluated(code.build)]}
    /\ binds' = ConsumeSelf(binds, i)
    /\ UNCHANGED <<pc, ast, info, code, probe>>

Next ==
    \/ Derive
    \/ CallBuilder
    \/ \E i \in 1..Len(binds) : \E k \in 1..Len(code.setters) : \E value \in Args :
          CallSetter(i, k, value)
    \/ \E i \in 1..Len(binds) : CallBuild(i)

Spec == Init /\ [][Next]_vars

\* ------------------------------------------------------------------------
\* Vocabulary of the properties
\* ------------------------------------------------------------------------
Live == {i \in 1..Len(binds) : binds[i].st = "live"}

FieldAt(n) == info.fields[n]

\* included fields with no default expression
RequiredNames ==
    {FieldAt(n).name : n \in {m \in 1..Len(info.fields) :
        ~FieldAt(m).builder_attr.exclude /\ FieldAt(m).builder_attr.default.kind = "none"}}

\* included fields with a default expression
OptionalNames == SlotNames \ RequiredNames

ExcludedNames ==
    {FieldAt(n).name : n \in {m \in 1..Len(info.fields) : FieldAt(m).builder_attr.exclude}}

\* the position of the slot of the included field nm in the builder's type
\* arguments
SlotPos(nm) ==
    Len(info.generics) + Cardinality({m \in 1..Len(info.fields) :
        /\ ~FieldAt(m).builder_attr.exclude
        /\ m <= (CHOOSE n \in 1..Len(info.fields) : FieldAt(n).name = nm)})

\* the slot of nm in the builder b is in the set shape, by type and by value
IsSet(b, nm) == b.ty[SlotPos(nm)].k = "tup" /\ Len(b.val.slots[nm]) = 1

\* the slot of nm in the builder b is in the unset shape, by type and by value
IsUnset(b, nm) == b.ty[SlotPos(nm)] = empty_type /\ b.val.slots[nm] = UnitVal

\* C1: build() is admitted only on a builder whose required fields are all
\* set; whenever it ran, every required field's setter had been called and
\* the record has a value for every field (no "missing field" outcome)
BuildOnlyWhenRequiredSet ==
    pc = "generated" =>
        /\ \A i \in Live :
              BuildAdmits(code.build, binds[i].ty) =>
                  \A nm \in RequiredNames : IsSet(binds[i], nm) /\ binds[i].calls[nm] # <<>>
        /\ \A rec \in recs :
              /\ \A nm \in RequiredNames : rec.calls[nm] # <<>>
              /\ DOMAIN rec.fields = {FieldAt(n).name : n \in 1..Len(info.fields)}

\* a builder with a required field unset, on which build() is not admitted,
\* next to a record built from a builder that had its required fields set
W_BuildOnlyWhenRequiredSet ==
    /\ pc = "generated"
    /\ RequiredNames # {}
    /\ recs # {}
    /\ \E i \in Live : /\ \E nm \in RequiredNames : IsUnset(binds[i], nm)
                       /\ ~BuildAdmits(code.build, binds[i].ty)

\* C2: a field's setter is admitted only on a builder whose slot for that
\* field is unset, so no builder was reached by calling one setter twice
SetterOnlyWhenUnset ==
    pc = "generated" =>
        \A i \in Live :
            /\ \A k \in 1..Len(code.setters) :
                  SetterAdmits(code.setters[k], binds[i].ty) =>
                      /\ IsUnset(binds[i], code.setters[k].field_name)
                      /\ binds[i].calls[code.setters[k].field_name] = <<>>
            /\ \A nm \in SlotNames : Len(binds[i].calls[nm]) <= 1

\* a builder with a field set, whose setter it no longer admits
W_SetterOnlyWhenUnset ==
    /\ pc = "generated"
    /\ \E i \in Live : \E k \in 1..Len(code.setters) :
          /\ binds[i].calls[code.setters[k].field_name] # <<>>
          /\ ~SetterAdmits(code.setters[k], binds[i].ty)

\* the value of the default expression d in a record with the given fields
DefaultValueIn(d, fields) ==
    IF d.kind = "lit" THEN I32(d.c) ELSE I32(fields[d.of].v + d.c)

\* C3: a builder whose required fields' setters were each called once admits
\* build(), and in the record build() returned every field that was set
\* holds its setter's argument converted to the field's type, and every
\* field that was not set holds the value of its default expression
BuildYieldsSetOrDefault ==
    pc = "generated" =>
        /\ \A i \in Live :
              (\A nm \in RequiredNames : Len(binds[i].calls[nm]) = 1)
                  => BuildAdmits(code.build, binds[i].ty)
        /\ \A rec \in recs :
              \A n \in 1..Len(info.fields) :
                  LET f == FieldAt(n)
                  IN  IF f.name \in SlotNames /\ rec.calls[f.name] # <<>>
                      THEN /\ Len(rec.calls[f.name]) = 1
                           /\ rec.fields[f.name] = I32(rec.calls[f.name][1].v)
                           /\ rec.fields[f.name].ty = f.ty
                      ELSE /\ f.builder_attr.default.kind # "none"
                           /\ rec.fields[f.name] = DefaultValueIn(f.builder_attr.default, rec.fields)

\* a record built from a builder on which one field was set from a u8 and
\* another field was left to its default
W_BuildYieldsSetOrDefault ==
    /\ pc = "generated"
    /\ \E rec \in recs :
          /\ \E nm \in SlotNames : rec.calls[nm] # <<>> /\ rec.calls[nm][1].ty = "u8"
          /\ \E nm \in SlotNames : rec.calls[nm] = <<>>

\* the sequences that list every element of the set S once
Orders(S) ==
    {p \in [1..Cardinality(S) -> S] : \A x \in S : \E n \in 1..Cardinality(S) : p[n] = x}

\* the setter of the included field nm
SetterOf(nm) ==
    code.setters[CHOOSE k \in 1..Len(code.setters) : code.setters[k].field_name = nm]

RECURSIVE Replay(_, _, _)
\* builder() followed by the setters of the first n fields of the order p,
\* each with the argument calls gives it; ok is whether every call type-checks
Replay(p, calls, n) ==
    IF n = 0 THEN [ok |-> TRUE, b |-> CallBuilderFn(code.creation)]
    ELSE LET r == Replay(p, calls, n - 1)
         IN  IF r.ok /\ SetterAdmits(SetterOf(p[n]), r.b.ty)
             THEN [ok |-> TRUE, b |-> CallSetterFn(SetterOf(p[n]), r.b, calls[p[n]][1])]
             ELSE [ok |-> FALSE, b |-> r.b]

\* the fields whose setters were called according to calls
CalledNames(calls) == {nm \in SlotNames : calls[nm] # <<>>}

\* C4: the setter calls that led to a builder, applied to builder() in any
\* order, are all admitted and reach that same builder (type and slots), and
\* build() on the result of any order returns the record that was built
SetterOrderIndependent ==
    pc = "generated" =>
        /\ \A i \in Live :
              \A p \in Orders(CalledNames(binds[i].calls)) :
                  LET r == Replay(p, binds[i].calls, Len(p))
                  IN  r.ok /\ r.b.ty = binds[i].ty /\ r.b.val = binds[i].val
        /\ \A rec \in recs :
              \A p \in Orders(CalledNames(rec.calls)) :
                  LET r == Replay(p, rec.calls, Len(p))
                  IN  /\ r.ok
                      /\ BuildAdmits(code.build, r.b.ty)
                      /\ CallBuildFn(code.build, r.b) = rec.fields

\* a record built from a builder on which two setters were called, with
\* different arguments
W_SetterOrderIndependent ==
    /\ pc = "generated"
    /\ \E rec \in recs : \E nm \in SlotNames : \E nm2 \in SlotNames :
          /\ nm # nm2
          /\ rec.calls[nm] # <<>> /\ rec.calls[nm2] # <<>>
          /\ rec.calls[nm] # rec.calls[nm2]

\* C5: with fields a (default 1) and b (default a + 1) declared in that
\* order, build() with neither set returns a = 1, b = 2, and with only a set,
\* to 5, returns a = 5, b = 6: b's default sees a's resolved value
DefaultSeesEarlierField ==
    (/\ pc = "generated"
     /\ Len(info.fields) >= 2
     /\ FieldAt(1).name = "a" /\ ~FieldAt(1).builder_attr.exclude
     /\ FieldAt(1).builder_attr.default = Lit(1)
     /\ FieldAt(2).name = "b" /\ ~FieldAt(2).builder_attr.exclude
     /\ FieldAt(2).builder_attr.default = RefPlus("a", 1))
    => \A rec \in recs :
          /\ (rec.calls["a"] = <<>> /\ rec.calls["b"] = <<>>)
                => (rec.fields["a"] = I32(1) /\ rec.fields["b"] = I32(2))
          /\ (Len(rec.calls["a"]) = 1 /\ rec.calls["a"][1].v = 5 /\ rec.calls["b"] = <<>>)
                => (rec.fields["a"] = I32(5) /\ rec.fields["b"] = I32(6))

\* that struct, built once with neither field set and once with only a set,
\* to 5
W_DefaultSeesEarlierField ==
    /\ pc = "generated"
    /\ Len(info.fields) >= 2
    /\ ~FieldAt(1).builder_attr.exclude /\ FieldAt(1).builder_attr.default = Lit(1)
    /\ ~FieldAt(2).builder_attr.exclude /\ FieldAt(2).builder_attr.default = RefPlus("a", 1)
    /\ \E rec \in recs : rec.calls["a"] = <<>> /\ rec.calls["b"] = <<>>
    /\ \E rec \in recs : rec.calls["a"] = <<[ty |-> "i32", v |-> 5]>> /\ rec.calls["b"] = <<>>

\* the names of the fields not marked `exclude`
NotExcludedNames == {FieldAt(n).name : n \in 1..Len(info.fields)} \ ExcludedNames

\* C6: an excluded field has no setter and no slot in any builder, and in
\* every record build() returned it holds the value of its default
\* expression
ExcludedFieldIsDefault ==
    pc = "generated" =>
        /\ \A k \in 1..Len(code.setters) : code.setters[k].field_name \notin ExcludedNames
        /\ Len(code.setters) = Cardinality(NotExcludedNames)
        /\ \A i \in Live :
              /\ DOMAIN binds[i].val.slots = NotExcludedNames
              /\ Len(binds[i].ty) = Len(info.generics) + Cardinality(NotExcludedNames)
        /\ \A rec \in recs :
              \A n \in 1..Len(info.fields) :
                  FieldAt(n).builder_attr.exclude =>
                      /\ FieldAt(n).builder_attr.default.kind # "none"
                      /\ rec.fields[FieldAt(n).name]
                            = DefaultValueIn(FieldAt(n).builder_attr.default, rec.fields)

\* a struct with an excluded field, built once with a setter called and once
\* with none called
W_ExcludedFieldIsDefault ==
    /\ pc = "generated"
    /\ ExcludedNames # {}
    /\ \E rec \in recs : \E nm \in NotExcludedNames : rec.calls[nm] # <<>>
    /\ \E rec \in recs : \A nm \in NotExcludedNames : rec.calls[nm] = <<>>

\* C7: build() is admitted on every builder whose required fields are all
\* set, whatever the shapes of its optional fields' slots
BuildWhenRequiredSet ==
    pc = "generated" =>
        \A i \in Live :
            (\A nm \in RequiredNames : IsSet(binds[i], nm)) => BuildAdmits(code.build, binds[i].ty)

\* an optional field that was unset in one builder build() ran on and set in
\* another
W_BuildWhenRequiredSet ==
    /\ pc = "generated"
    /\ \E nm \in OptionalNames :
          /\ \E rec \in recs : rec.calls[nm] = <<>>
          /\ \E rec \in recs : rec.calls[nm] # <<>>

\* C8: the builder a setter returns has the setter's slot set to the
\* converted argument, and every other slot (type and value) and the phantom
\* carrier as in the builder it was called on
SetterChangesOneSlot ==
    [][(Len(binds') = Len(binds) + 1 /\ binds'[Len(binds')].parent # 0) =>
          LET new == binds'[Len(binds')]
              old == binds[new.parent]
              nm == new.via
          IN  /\ new.val.slots[nm] = TupleVal(I32(new.calls[nm][Len(new.calls[nm])].v))
              /\ new.ty[SlotPos(nm)] = TupleTy("i32")
              /\ DOMAIN new.val.slots = DOMAIN old.val.slots
              /\ Len(new.ty) = Len(old.ty)
              /\ \A other \in DOMAIN old.val.slots \ {nm} :
                    new.val.slots[other] = old.val.slots[other]
              /\ \A n \in 1..Len(old.ty) : n # SlotPos(nm) => new.ty[n] = old.ty[n]
              /\ new.val.phantom = old.val.phantom]_vars

\* a builder returned by a setter that was called on a builder with another
\* field already set
W_SetterChangesOneSlot ==
    /\ pc = "generated"
    /\ \E i \in Live :
          /\ binds[i].parent # 0
          /\ \E other \in SlotNames \ {binds[i].via} :
                IsSet(binds[i], other) /\ binds[i].calls[other] # <<>>

\* C9: what builder() returned has exactly one slot per field that is not
\* excluded, after the struct's own generic arguments, each of type `()` and
\* holding `()`
BuilderStartsUnset ==
    pc = "generated" =>
        \A i \in Live :
            binds[i].parent = 0 =>
                /\ Len(binds[i].ty) = Len(info.generics) + Cardinality(NotExcludedNames)
                /\ \A n \in 1..Len(info.generics) : binds[i].ty[n] = OwnParam(info.generics[n])
                /\ \A n \in (Len(info.generics) + 1)..Len(binds[i].ty) : binds[i].ty[n] = empty_type
                /\ DOMAIN binds[i].val.slots = NotExcludedNames
                /\ \A nm \in NotExcludedNames : binds[i].val.slots[nm] = UnitVal

\* a builder() result for a struct with an excluded and an included field
W_BuilderStartsUnset ==
    /\ pc = "generated"
    /\ ExcludedNames # {}
    /\ NotExcludedNames # {}
    /\ \E i \in Live : binds[i].parent = 0

\* C10: a setter and build() consume their receiver: the binding they were
\* called on was usable before and is moved afterwards, and a moved binding
\* stays moved
BuilderConsumedByUse ==
    [][/\ \A i \in 1..Len(binds) : binds[i].st = "moved" => binds'[i].st = "moved"
       /\ (Len(binds') = Len(binds) + 1 /\ binds'[Len(binds')].parent # 0) =>
             /\ binds[binds'[Len(binds')].parent].st = "live"
             /\ binds'[binds'[Len(binds')].parent].st = "moved"
       /\ \A r \in recs' \ recs :
             /\ binds[r.src].st = "live"
             /\ binds'[r.src].st = "moved"]_vars

\* a binding moved by build() and a binding moved by a setter
W_BuilderConsumedByUse ==
    /\ pc = "generated"
    /\ \E r \in recs : binds[r.src].st = "moved"
    /\ \E i \in 1..Len(binds) : binds[i].st = "live" /\ binds[i].parent # 0
                                 /\ binds[binds[i].parent].st = "moved"

\* the derive input is ill-formed: its #[builder(...)] attributes are
\* malformed or duplicated, or a field is excluded without a default
IllFormed(input) ==
    \/ Len(input.attrs) > 1
    \/ \E n \in 1..Len(input.attrs) : input.attrs[n] # "builder()"
    \/ \E n \in 1..Len(input.fields) :
          input.fields[n].exclude /\ input.fields[n].default.kind = "none"

\* C12: once the derive has run on an ill-formed input it has ended in the
\* error, with no StructInfo and no generated fragment, and no builder or
\* record ever exists for that struct; a well-formed input does not end in
\* the error
ExtractionFailureEmitsNothing ==
    /\ (pc # "start" /\ IllFormed(ast)) =>
          /\ pc = "error"
          /\ info = NoInfo
          /\ code = NoCode
          /\ binds = <<>>
          /\ recs = {}
    /\ (pc # "start" /\ ~IllFormed(ast)) => pc = "generated"

\* the derive has failed on a struct with a well-formed field next to a field
\* whose descriptor cannot be built
W_ExtractionFailureEmitsNothing ==
    /\ pc = "error"
    /\ ast.attrs = <<>>
    /\ \E n \in 1..Len(ast.fields) : ast.fields[n].exclude /\ ast.fields[n].default.kind = "none"
    /\ \E n \in 1..Len(ast.fields) : ~ast.fields[n].exclude

\* ------------------------------------------------------------------------
\* The helper trait's method on its own
\* ------------------------------------------------------------------------
\* a type that is neither `()` nor a one-element tuple
PairTy(t) == [k |-> "pair", t |-> t]

\* the receivers the helper method is tried on, each a type with a value of
\* that type: `()`, `(i32,)`, `(u8,)` and `(i32, i32)`
ProbeReceivers ==
    {[ty |-> empty_type, slot |-> UnitVal]}
    \cup {[ty |-> TupleTy("i32"), slot |-> TupleVal(I32(n))] : n \in 0..MaxProbeValue}
    \cup {[ty |-> TupleTy("u8"), slot |-> TupleVal([ty |-> "u8", v |-> n])] : n \in 0..MaxProbeValue}
    \cup {[ty |-> PairTy("i32"), slot |-> <<I32(n), I32(n)>>] : n \in 0..MaxProbeValue}

\* a caller about to evaluate `receiver.helper_method(default)` where an i32
\* is expected, i.e. through the helper trait instantiated at i32
InitResolve ==
    /\ pc = "helper"
    /\ ast = [ident |-> "Foo", attrs |-> <<>>, generics |-> <<>>, fields |-> <<>>]
    /\ info = NoInfo
    /\ code = NoCode
    /\ binds = <<>>
    /\ recs = {}
    /\ \E r \in ProbeReceivers : \E n \in 0..MaxProbeValue :
          probe = [ty |-> r.ty, slot |-> r.slot, default |-> I32(n), st |-> "call", out |-> I32(0)]

\* the call: a type error unless the receiver's type implements the trait at
\* i32, otherwise what the impl's method returns
Resolve ==
    /\ pc = "helper"
    /\ probe.st = "call"
    /\ IF Implements(probe.ty, "i32")
       THEN probe' = [probe EXCEPT !.st = "returned", !.out = HelperMethod(probe.slot, probe.default)]
       ELSE probe' = [probe EXCEPT !.st = "rejected"]
    /\ UNCHANGED <<pc, ast, info, code, binds, recs>>

NextResolve == Resolve

SpecResolve == InitResolve /\ [][NextResolve]_vars

\* C13: the helper method is accepted on exactly the two slot shapes `()` and
\* `(T,)`; on `()` it returns the default it was passed, on `(T,)` the value
\* the slot holds, whatever the default
PresenceResolutionTwoCases ==
    /\ probe.st = "returned" =>
          \/ probe.ty = empty_type /\ probe.slot = UnitVal /\ probe.out = probe.default
          \/ probe.ty = TupleTy("i32") /\ Len(probe.slot) = 1 /\ probe.out = probe.slot[1]
    /\ probe.st = "rejected" => probe.ty \notin {empty_type, TupleTy("i32")}

\* a call on a set slot that returned the held value, with a default that
\* differs from it
W_PresenceResolutionTwoCases ==
    /\ probe.st = "returned"
    /\ probe.ty = TupleTy("i32")
    /\ probe.out = probe.slot[1]
    /\ probe.default # probe.slot[1]

\* C14: build() evaluates the default expression of an included optional
\* field only when that field's slot is unset (builder() and the setters
\* hold no default expression at all: evaluations happen in build() only)
DefaultEvaluatedOnlyWhenUnset ==
    pc = "generated" =>
        \A rec \in recs :
            \A nm \in rec.evaluated \cap OptionalNames : rec.calls[nm] = <<>>

\* the number of excluded fields declared before position n
ExcludedBefore(n) ==
    Cardinality({j \in 1..(n - 1) : info.fields[j].builder_attr.exclude})

OwnThenSlots(list) ==
    /\ Len(list) = Len(info.generics) + Len(included_fields(info))
    /\ \A i \in 1..Len(info.generics) : list[i] = OwnParam(info.generics[i])

\* the slot of the n-th included field in a generic argument list
SlotOf(list, n) == list[Len(info.generics) + n]

\* C16: the builder declaration, the return type of builder(), the receiver
\* and return type of every setter and the receiver of build() list the
\* struct's own generic parameters and then one slot per included field in
\* declaration order; the n-th slot is the n-th included field's in all of
\* them, in the builder's type and in its value alike, so every builder a
\* setter returns is a receiver of every still-unset field's setter and, once
\* the required fields are set, of build()
PiecesAgreeOnSlots ==
    pc = "generated" =>
        LET inc == included_fields(info)
            g == Len(info.generics)
            decl == code.creation
        IN  /\ Len(decl.b_generics) = g + Len(inc)
            /\ \A i \in 1..g : decl.b_generics[i].ident = info.generics[i]
            /\ Len(decl.builder_generics) = Len(inc)
            /\ OwnThenSlots(decl.generics_with_empty)
            /\ OwnThenSlots(code.build.modified_ty_generics)
            /\ Len(code.setters) = Len(inc)
            /\ \A n \in 1..Len(inc) :
                  /\ decl.b_generics[g + n].ident = inc[n].generic_ident
                  /\ decl.builder_generics[n] = [name |-> inc[n].name, ty |-> type_ident(inc[n])]
                  /\ decl.init_empties[n].name = inc[n].name
                  /\ SlotOf(decl.generics_with_empty, n) = empty_type
                  /\ SlotOf(code.build.modified_ty_generics, n)
                        \in {type_ident(inc[n]), tuplized_type_ty_param(inc[n])}
                  /\ LET s == code.setters[n]
                     IN  /\ s.field_name = inc[n].name
                         /\ OwnThenSlots(s.ty_generics)
                         /\ OwnThenSlots(s.target_generics)
                         /\ SlotOf(s.ty_generics, n) = empty_type
                         /\ SlotOf(s.target_generics, n) = tuplized_type_ty_param(inc[n])
                         /\ \A m \in 1..Len(inc) \ {n} :
                               /\ SlotOf(s.ty_generics, m) = type_ident(inc[m])
                               /\ SlotOf(s.target_generics, m) = type_ident(inc[m])
            /\ \A i \in Live :
                  /\ OwnThenSlots(binds[i].ty)
                  /\ \A n \in 1..Len(inc) :
                        /\ SlotOf(binds[i].ty, n) = empty_type
                              <=> binds[i].val.slots[inc[n].name] = UnitVal
                        /\ SlotOf(binds[i].ty, n) = tuplized_type_ty_param(inc[n])
                              <=> Len(binds[i].val.slots[inc[n].name]) = 1
                        /\ SlotOf(binds[i].ty, n) = empty_type
                              => SetterAdmits(code.setters[n], binds[i].ty)
                  /\ (\A n \in 1..Len(inc) :
                         inc[n].builder_attr.default.kind = "none"
                            => SlotOf(binds[i].ty, n) # empty_type)
                        => BuildAdmits(code.build, binds[i].ty)

\* a setter's output was the receiver of another field's setter, whose output
\* was the receiver of build(), for a generic struct
W_PiecesAgreeOnSlots ==
    /\ pc = "generated"
    /\ Len(info.generics) > 0
    /\ \E rec \in recs :
          /\ \E nm1, nm2 \in SlotNames :
                nm1 # nm2 /\ rec.calls[nm1] # <<>> /\ rec.calls[nm2] # <<>>

\* the fields the builder struct declares a slot for
DeclaredSlots ==
    {code.creation.builder_generics[n].name : n \in 1..Len(code.creation.builder_generics)}

\* C17: build() reads a slot only where the builder has one and it is set: a
\* field with no default is unwrapped from a slot the builder declares and
\* build()'s receiver pins to the set shape; an excluded field is resolved
\* from its default and never from a slot; every slot build() reads, by
\* unwrapping or through the helper, is one the builder declares and holds
BuildReadsOnlyDeclaredSetSlots ==
    pc = "generated" =>
        LET inc == included_fields(info)
            as == code.build.assignments
        IN  /\ Len(as) = Len(info.fields)
            /\ \A n \in 1..Len(info.fields) :
                  LET f == info.fields[n]
                  IN  /\ as[n].name = f.name
                      /\ f.builder_attr.default.kind = "none" =>
                            /\ as[n].how = "unwrap"
                            /\ \E m \in 1..Len(inc) :
                                  /\ inc[m] = f
                                  /\ SlotOf(code.build.modified_ty_generics, m) = TupleTy(f.ty)
                      /\ f.builder_attr.exclude =>
                            /\ as[n].how = "default"
                            /\ f.name \notin DeclaredSlots
                      /\ as[n].how \in {"unwrap", "helper"} =>
                            /\ f.name \in DeclaredSlots
                            /\ f.name \in DOMAIN CallBuilderFn(code.creation).val.slots
            /\ \A i \in Live :
                  BuildAdmits(code.build, binds[i].ty) =>
                     \A n \in 1..Len(as) :
                        /\ as[n].how \in {"unwrap", "helper"} =>
                              as[n].name \in DOMAIN binds[i].val.slots
                        /\ as[n].how = "unwrap" =>
                              Len(binds[i].val.slots[as[n].name]) = 1

\* build() returned a struct with an excluded field and a field without a
\* default
W_BuildReadsOnlyDeclaredSetSlots ==
    /\ pc = "generated"
    /\ ExcludedNames # {}
    /\ RequiredNames # {}
    /\ \E rec \in recs :
          \A nm \in RequiredNames : rec.fields[nm] = I32(rec.calls[nm][1].v)

\* C18: in every builder reached from builder() by setter calls, a field's
\* slot is set iff its setter was called exactly once, and then holds that
\* call's converted argument; it is unset iff its setter was never called; no
\* setter was called twice; a builder not made by a setter is builder()'s
SlotSetIffSetterCalledOnce ==
    pc = "generated" =>
        \A i \in Live :
            /\ \A nm \in SlotNames :
                  /\ Len(binds[i].calls[nm]) <= 1
                  /\ IsSet(binds[i], nm) <=> Len(binds[i].calls[nm]) = 1
                  /\ IsUnset(binds[i], nm) <=> binds[i].calls[nm] = <<>>
                  /\ IsSet(binds[i], nm) =>
                        binds[i].val.slots[nm] = TupleVal(Into(binds[i].calls[nm][1]))
            /\ binds[i].parent < i
            /\ IF binds[i].parent = 0
               THEN /\ binds[i].ty = CallBuilderFn(code.creation).ty
                    /\ binds[i].val = CallBuilderFn(code.creation).val
                    /\ \A nm \in SlotNames : binds[i].calls[nm] = <<>>
               ELSE /\ binds[i].via \in SlotNames
                    /\ binds[i].calls[binds[i].via] # <<>>

\* a builder with one field set by a setter called with a u8 and another
\* field still unset
W_SlotSetIffSetterCalledOnce ==
    /\ pc = "generated"
    /\ \E i \in Live : \E nm1, nm2 \in SlotNames :
          /\ IsSet(binds[i], nm1)
          /\ binds[i].calls[nm1] = <<[ty |-> "u8", v |-> 7]>>
          /\ binds[i].val.slots[nm1] = TupleVal(I32(7))
          /\ IsUnset(binds[i], nm2)

\* the number of set slots of the builder b
SetCount(b) == Cardinality({nm \in SlotNames : IsSet(b, nm)})

\* the number of setter calls that led to a builder
CallCount(calls) ==
    Cardinality(UNION {{nm} \X (1..Len(calls[nm])) : nm \in SlotNames})

\* the setters admitted on the builder b
SettersAdmitted(b) == {k \in 1..Len(code.setters) : SetterAdmits(code.setters[k], b.ty)}

\* C19: every admitted setter call raises the number of set slots by exactly
\* one, so a builder's set slots number the setter calls that led to it and
\* never exceed N, the number of included fields; with k slots set, N - k
\* setters are admitted, and after N calls none is and build() is
SetterChainIsBounded ==
    /\ [](pc = "generated" =>
             \A i \in Live :
                 /\ SetCount(binds[i]) = CallCount(binds[i].calls)
                 /\ SetCount(binds[i]) <= Len(included_fields(info))
                 /\ Cardinality(SettersAdmitted(binds[i]))
                       = Len(included_fields(info)) - SetCount(binds[i])
                 /\ SetCount(binds[i]) = Len(included_fields(info)) =>
                       /\ SettersAdmitted(binds[i]) = {}
                       /\ BuildAdmits(code.build, binds[i].ty))
    /\ [][(Len(binds') = Len(binds) + 1 /\ binds'[Len(binds')].parent # 0) =>
             SetCount(binds'[Len(binds')]) = SetCount(binds[binds'[Len(binds')].parent]) + 1]_vars

\* a builder reached by as many setter calls as there are included fields,
\* two or more
W_SetterChainIsBounded ==
    /\ pc = "generated"
    /\ Len(included_fields(info)) >= 2
    /\ \E i \in Live :
          /\ CallCount(binds[i].calls) = Len(included_fields(info))
          /\ SettersAdmitted(binds[i]) = {}

====
